---- MODULE Spec2Model ----
(***************************************************************************)
(* A model of static/js/main.js: the byte-size and date formatters, the    *)
(* upload pre-validation, and the notification banner with its 5 second    *)
(* auto-dismiss timer running on the page's single-threaded event loop.    *)
(*                                                                         *)
(* A byte count is a JavaScript Number.  TLC's integers are 32 bits wide   *)
(* and the unit table ends at 1024^4 = 2^40, so a byte count is held as    *)
(* its base-1024 digits ("limbs"), least significant first.  All byte      *)
(* counts of the model are below 2 * 1024^4; in that range every           *)
(* intermediate value of formatFileSize is an IEEE double without rounding *)
(* error (bytes / 1024^i is a division by a power of two, the product with *)
(* 100 has fewer than 53 significant bits) and Math.log(bytes) /           *)
(* Math.log(1024) is on the same side of every integer as the real         *)
(* quotient, so that the limb arithmetic below is the arithmetic the       *)
(* script performs.                                                        *)
(***************************************************************************)
EXTENDS Integers, Sequences, FiniteSets, TLC

VARIABLES
    containers,  \* number of elements the selector 'main .container' matches
    alerts,      \* the banner elements in the document, a set of records
    timers,      \* pending setTimeout callbacks: call id, ms since scheduled
    fades,       \* fadeOut animations in progress: call id, targeted banners
    callCount,   \* showNotification calls made so far
    firedCount,  \* timer callbacks run so far
    input,       \* the argument the calling context holds for the utilities
    ret,         \* what the last utility call returned
    fnCalls,     \* utility calls made so far
    first        \* what the first utility call returned, and when

vars == <<containers, alerts, timers, fades, callCount, firedCount,
          input, ret, fnCalls, first>>

pageVars == <<containers, alerts, timers, fades, callCount, firedCount>>

----------------------------------------------------------------------------
(* Bounds of the model.                                                    *)

MaxCalls == 2

TicksPerDelay == 2

MaxFnCalls == 2

----------------------------------------------------------------------------
(* formatFileSize                                                          *)

k == 1024

sizes == <<"Bytes", "KB", "MB", "GB">>

NumLimbs == Len(sizes) + 1

RECURSIVE Limbs(_, _)
Limbs(n, len) ==
    IF len = 0 THEN <<>> ELSE <<n % k>> \o Limbs(n \div k, len - 1)

IsZero(bytes) == \A j \in DOMAIN bytes : bytes[j] = 0

RECURSIVE LimbsToInt(_)
LimbsToInt(s) == IF s = <<>> THEN 0 ELSE Head(s) + k * LimbsToInt(Tail(s))

RECURSIVE MulCarry(_, _, _)
MulCarry(x, m, c) ==
    IF x = <<>>
    THEN <<c>>
    ELSE LET p == Head(x) * m + c
         IN  <<p % k>> \o MulCarry(Tail(x), m, p \div k)

\* Math.floor(Math.log(bytes) / Math.log(k)) for bytes > 0
MathLogFloor(bytes) ==
    (CHOOSE j \in DOMAIN bytes :
        /\ bytes[j] # 0
        /\ \A h \in DOMAIN bytes : h > j => bytes[h] = 0) - 1

\* Math.floor in place of Math.round
MathFloorScaled(bytes, i) ==
    LimbsToInt(SubSeq(MulCarry(bytes, 100, 0), i + 1, NumLimbs + 1))

\* Math.round((bytes / Math.pow(k, i)) * 100): the product's limbs from i up
\* are the integer part, and Math.round goes up from a fraction of one half.
MathRoundScaled(bytes, i) ==
    LET p     == MulCarry(bytes, 100, 0)
        whole == LimbsToInt(SubSeq(p, i + 1, Len(p)))
        up    == i >= 1 /\ p[i] >= k \div 2
    IN  whole + (IF up THEN 1 ELSE 0)

Digits == <<"0", "1", "2", "3", "4", "5", "6", "7", "8", "9">>

RECURSIVE IntToString(_)
IntToString(n) ==
    IF n < 10 THEN Digits[n + 1]
    ELSE IntToString(n \div 10) \o Digits[(n % 10) + 1]

\* the rendering toFixed(2) would give
NumberToFixed2(h) ==
    IntToString(h \div 100) \o "." \o
    Digits[((h % 100) \div 10) + 1] \o Digits[(h % 10) + 1]

\* (h / 100) + '': Number-to-string of a value with at most two decimals
NumberToString(h) ==
    LET frac == h % 100
    IN  IntToString(h \div 100) \o
        (IF frac = 0 THEN ""
         ELSE "." \o Digits[(frac \div 10) + 1] \o
              (IF frac % 10 = 0 THEN "" ELSE Digits[(frac % 10) + 1]))

\* the index clamped to the table
SizesAtClamped(i) == sizes[(IF i + 1 > Len(sizes) THEN Len(sizes) ELSE i + 1)]

\* sizes[i]: an index past the array reads undefined, which + ' ' + renders
SizesAt(i) == IF i + 1 \in DOMAIN sizes THEN sizes[i + 1] ELSE "undefined"

formatFileSize(bytes) ==
    IF IsZero(bytes) THEN "0 Bytes"
    ELSE LET i == MathLogFloor(bytes)
         IN  NumberToString(MathRoundScaled(bytes, i)) \o " " \o SizesAt(i)

----------------------------------------------------------------------------
(* formatDate: both steps are the host's; the table is the en-US rendering *)
(* in UTC of the strings the model passes.                                 *)

DateStrings == {"2024-01-15T10:30:00Z", "1970-01-01T00:00:00Z", "yesterday", ""}

HostDateParse(dateString) ==
    CASE dateString = "2024-01-15T10:30:00Z" -> [valid |-> TRUE, day |-> 19737, sec |-> 37800]
      [] dateString = "1970-01-01T00:00:00Z" -> [valid |-> TRUE, day |-> 0, sec |-> 0]
      [] OTHER -> [valid |-> FALSE]

HostToLocaleString(date) ==
    IF ~date.valid THEN "Invalid Date"
    ELSE IF date.day = 0 THEN "1/1/1970, 12:00:00 AM"
    ELSE "1/15/2024, 10:30:00 AM"

formatDate(dateString) == HostToLocaleString(HostDateParse(dateString))

----------------------------------------------------------------------------
(* validateFile                                                            *)

allowedTypes == <<"image/jpeg", "image/png", "image/jpg", "video/mp4",
                  "video/avi", "video/x-msvideo", "video/quicktime",
                  "video/x-matroska">>

maxSize == 500 * 1024 * 1024

Includes(array, x) == \E j \in DOMAIN array : array[j] = x

\* the size checked before the type
validateFileSizeFirst(file) ==
    IF file.size > maxSize
    THEN [valid |-> FALSE, message |-> "File size exceeds 500MB limit."]
    ELSE IF ~Includes(allowedTypes, file.type)
    THEN [valid |-> FALSE,
          message |-> "Invalid file type. Please upload an image or video."]
    ELSE [valid |-> TRUE]

\* >= in place of >
validateFileAtLimit(file) ==
    IF ~Includes(allowedTypes, file.type)
    THEN [valid |-> FALSE,
          message |-> "Invalid file type. Please upload an image or video."]
    ELSE IF file.size >= maxSize
    THEN [valid |-> FALSE, message |-> "File size exceeds 500MB limit."]
    ELSE [valid |-> TRUE]

validateFile(file) ==
    IF ~Includes(allowedTypes, file.type)
    THEN [valid |-> FALSE,
          message |-> "Invalid file type. Please upload an image or video."]
    ELSE IF file.size > maxSize
    THEN [valid |-> FALSE, message |-> "File size exceeds 500MB limit."]
    ELSE [valid |-> TRUE]

----------------------------------------------------------------------------
(* showNotification, its timer and the fade-out it starts                  *)

Delay == 5000

Messages == {"x"}

Types == {"info", "danger"}

\* The document's nodes that are banners carry node = "alert"; a banner is
\* identified by the call that made it and the container it was put in.
Key(a) == <<a.id, a.c>>

\* $('main .container').prepend(alertHTML): one new element per container
Prepend(doc, id, message, type) ==
    doc \cup {[node |-> "alert", id |-> id, c |-> c, type |-> type,
               message |-> message, display |-> "block"] : c \in 1..containers}

\* $('.alert'): every banner in the document, whichever call made it
SelectAlert(doc) == {a \in doc : a.node = "alert"}

\* this inside the two arrow functions is the this of showNotification,
\* which is called as a plain function: the global object in a classic
\* script, undefined in strict code.
ArrowThis == {[node |-> "window"], [node |-> "undefined"]}

\* $(x): the set holding x, empty for undefined
JQuery(x) == IF x.node = "undefined" THEN {} ELSE {x}

\* .remove(): takes the elements of the set out of the document
Remove(doc, set) ==
    {a \in doc : \A e \in set : e.node = "alert" => Key(e) # Key(a)}

\* .fadeOut() ends with display: none on each element it animated
Hide(doc, targets) ==
    {IF Key(a) \in targets THEN [a EXCEPT !.display = "none"] ELSE a : a \in doc}

ShowNotification(message, type) ==
    /\ callCount < MaxCalls
    /\ alerts' = Prepend(alerts, callCount + 1, message, type)
    /\ timers' = timers \cup {[id |-> callCount + 1, elapsed |-> 0]}
    /\ callCount' = callCount + 1
    /\ UNCHANGED <<containers, fades, firedCount, input, ret, fnCalls, first>>

\* a callback that fades only the banners of its own call
TimerFireOwn(t) ==
    /\ t \in timers
    /\ t.elapsed >= Delay
    /\ timers' = timers \ {t}
    /\ LET targets == {Key(a) : a \in {b \in SelectAlert(alerts) : b.id = t.id}}
       IN  fades' = IF targets = {} THEN fades
                    ELSE fades \cup {[by |-> t.id, targets |-> targets]}
    /\ firedCount' = firedCount + 1
    /\ UNCHANGED <<containers, alerts, callCount, input, ret, fnCalls, first>>

\* The callback passed to setTimeout: starts a fade-out on $('.alert').
TimerFire(t) ==
    /\ t \in timers
    /\ t.elapsed >= Delay
    /\ timers' = timers \ {t}
    /\ LET targets == {Key(a) : a \in SelectAlert(alerts)}
       IN  fades' = IF targets = {} THEN fades
                    ELSE fades \cup {[by |-> t.id, targets |-> targets]}
    /\ firedCount' = firedCount + 1
    /\ UNCHANGED <<containers, alerts, callCount, input, ret, fnCalls, first>>

\* The fade-out started by one timer callback ends: its elements are hidden
\* and the completion callback runs $(this).remove() for each of them.
FadeComplete(f, self) ==
    /\ f \in fades
    /\ self \in ArrowThis
    /\ alerts' = Remove(Hide(alerts, f.targets), JQuery(self))
    /\ fades' = fades \ {f}
    /\ UNCHANGED <<containers, timers, callCount, firedCount,
                   input, ret, fnCalls, first>>

\* a dismissal that also clears the banner's timer
DismissCancels(a) ==
    /\ a \in alerts
    /\ a.display = "block"
    /\ alerts' = alerts \ {a}
    /\ timers' = {t \in timers : t.id # a.id}
    /\ UNCHANGED <<containers, fades, callCount, firedCount,
                   input, ret, fnCalls, first>>

\* The banner's btn-close button (data-bs-dismiss="alert") is clicked: the
\* toolkit closes the banner and takes it out of the document.
Dismiss(a) ==
    /\ a \in alerts
    /\ a.display = "block"
    /\ alerts' = alerts \ {a}
    /\ UNCHANGED <<containers, timers, fades, callCount, firedCount,
                   input, ret, fnCalls, first>>

Min(S) == CHOOSE x \in S : \A y \in S : x <= y

\* Time passes; the event loop runs a callback once its delay has elapsed,
\* so time does not pass beyond a pending callback's 5000 ms.
Tick ==
    /\ timers # {}
    /\ LET d == Min({Delay \div TicksPerDelay} \cup
                    {Delay - t.elapsed : t \in timers})
       IN  /\ d > 0
           /\ timers' = {[t EXCEPT !.elapsed = @ + d] : t \in timers}
    /\ UNCHANGED <<containers, alerts, fades, callCount, firedCount,
                   input, ret, fnCalls, first>>

----------------------------------------------------------------------------
(* The calling context applies the utilities to the argument it holds.     *)

Return(fn, val) ==
    /\ fnCalls < MaxFnCalls
    /\ ret' = [fn |-> fn, val |-> val]
    /\ fnCalls' = fnCalls + 1
    /\ first' = IF fnCalls = 0
                THEN [val |-> val, fired |-> firedCount, shown |-> callCount]
                ELSE first

FormatFileSizeCall ==
    /\ input.kind = "bytes"
    /\ Return("formatFileSize", formatFileSize(input.bytes))
    /\ UNCHANGED <<pageVars, input>>

FormatDateCall ==
    /\ input.kind = "date"
    /\ Return("formatDate", formatDate(input.dateString))
    /\ UNCHANGED <<pageVars, input>>

\* a validation that reports a rejected file in a banner
ValidateFileCallNotifies ==
    /\ input.kind = "file"
    /\ Return("validateFile", validateFile(input.file))
    /\ IF validateFile(input.file).valid \/ callCount >= MaxCalls
       THEN UNCHANGED <<pageVars, input>>
       ELSE /\ alerts' = Prepend(alerts, callCount + 1, "x", "danger")
            /\ timers' = timers \cup {[id |-> callCount + 1, elapsed |-> 0]}
            /\ callCount' = callCount + 1
            /\ UNCHANGED <<containers, fades, firedCount, input>>

ValidateFileCall ==
    /\ input.kind = "file"
    /\ Return("validateFile", validateFile(input.file))
    /\ UNCHANGED <<pageVars, input>>

----------------------------------------------------------------------------
(* Arguments                                                               *)

LimbSamples == {0, 1, 128, 512, 1023}

\* every count below 1024, and counts around each unit boundary and each
\* rounding boundary up to 2 * 1024^4
ByteCounts ==
    {Limbs(b, NumLimbs) : b \in 0..(k - 1)} \cup
    {b \in [1..NumLimbs -> LimbSamples] : b[NumLimbs] \in {0, 1}}

FileTypes ==
    {allowedTypes[j] : j \in DOMAIN allowedTypes} \cup
    {"text/plain", "image/gif", "IMAGE/PNG", ""}

FileSizes == {0, 1000, maxSize - 1, maxSize, maxSize + 1, 600 * 1024 * 1024}

Files == [type : FileTypes, size : FileSizes]

FnInputs ==
    {[kind |-> "bytes", bytes |-> b] : b \in ByteCounts} \cup
    {[kind |-> "file", file |-> f] : f \in Files} \cup
    {[kind |-> "date", dateString |-> s] : s \in DateStrings}

PageInputs ==
    {[kind |-> "bytes", bytes |-> Limbs(1536, NumLimbs)],
     [kind |-> "file", file |-> [type |-> "text/plain", size |-> maxSize + 1]],
     [kind |-> "date", dateString |-> "2024-01-15T10:30:00Z"]}

----------------------------------------------------------------------------
(* Specifications                                                          *)

InitPage ==
    /\ alerts = {}
    /\ timers = {}
    /\ fades = {}
    /\ callCount = 0
    /\ firedCount = 0
    /\ ret = [fn |-> "none", val |-> ""]
    /\ fnCalls = 0
    /\ first = [val |-> "", fired |-> 0, shown |-> 0]

Init ==
    /\ containers \in {0, 1}
    /\ input \in PageInputs
    /\ InitPage

NextPage ==
    \/ \E m \in Messages, ty \in Types : ShowNotification(m, ty)
    \/ \E t \in timers : TimerFire(t)
    \/ \E f \in fades, self \in ArrowThis : FadeComplete(f, self)
    \/ \E a \in alerts : Dismiss(a)
    \/ Tick

Next ==
    \/ NextPage
    \/ FormatFileSizeCall
    \/ FormatDateCall
    \/ ValidateFileCall

Spec == Init /\ [][Next]_vars

\* the utilities alone, over all the arguments
InitFn ==
    /\ containers = 1
    /\ input \in FnInputs
    /\ InitPage

NextFn ==
    \/ FormatFileSizeCall
    \/ FormatDateCall
    \/ ValidateFileCall

SpecFn == InitFn /\ [][NextFn]_vars

\* the event loop runs every callback that is due, and time passes
Fairness ==
    /\ WF_vars(Tick)
    /\ WF_vars(\E t \in timers : TimerFire(t))
    /\ WF_vars(\E f \in fades, self \in ArrowThis : FadeComplete(f, self))

\* the page alone, with no utility called
InitFair ==
    /\ containers \in {0, 1}
    /\ input = [kind |-> "date", dateString |-> ""]
    /\ InitPage

FairSpec == InitFair /\ [][NextPage]_vars /\ Fairness

----------------------------------------------------------------------------
(* Properties                                                              *)

TypeMessage == "Invalid file type. Please upload an image or video."

SizeMessage == "File size exceeds 500MB limit."

Validated == ret.fn = "validateFile"

Formatted == ret.fn = "formatFileSize"

\* the byte count is below 1024^n
Below(bytes, n) == \A j \in DOMAIN bytes : j > n => bytes[j] = 0

\* comparison of two numbers given by equally many limbs
RECURSIVE BigLeq(_, _)
BigLeq(a, b) ==
    IF a = <<>> THEN TRUE
    ELSE LET n == Len(a)
         IN  \/ a[n] < b[n]
             \/ a[n] = b[n] /\ BigLeq(SubSeq(a, 1, n - 1), SubSeq(b, 1, n - 1))

\* m * 1024^i in NumLimbs + 1 limbs
Shifted(m, i) == [j \in 1..i |-> 0] \o Limbs(m, NumLimbs + 1 - i)

\* h hundredths is bytes / 1024^i rounded to the nearest hundredth, a tie
\* going up:  (2h - 1) * 1024^i <= 200 * bytes < (2h + 1) * 1024^i
NearestHundredth(h, bytes, i) ==
    LET b200 == MulCarry(bytes, 200, 0)
    IN  /\ BigLeq(Shifted(2 * h - 1, i), b200)
        /\ ~BigLeq(Shifted(2 * h + 1, i), b200)

\* i is the largest index with 1024^i <= bytes
LargestUnit(i, bytes) ==
    /\ BigLeq(Shifted(1, i), bytes \o <<0>>)
    /\ ~BigLeq(Shifted(1, i + 1), bytes \o <<0>>)

\* C1: a file whose type is not in the allow-list gets the type message
\* whatever its size, and the size message is given only to files whose
\* type is in the allow-list.
C1_TypeBeforeSize ==
    Validated =>
        /\ ~Includes(allowedTypes, input.file.type) =>
               /\ ~ret.val.valid
               /\ ret.val.message = TypeMessage
        /\ (~ret.val.valid /\ ret.val.message = SizeMessage) =>
               Includes(allowedTypes, input.file.type)

C1_Witness ==
    /\ Validated
    /\ ~Includes(allowedTypes, input.file.type)
    /\ input.file.size > 500 * 1024 * 1024

\* C2: the result is Valid exactly for an allow-listed type with a size of
\* at most 500*1024*1024; at exactly that size an allowed file is Valid and
\* one byte above it is Invalid with the size message.
C2_ValidIff ==
    Validated =>
        /\ Len(allowedTypes) = 8
        /\ ret.val.valid <=>
               /\ input.file.type \in {allowedTypes[j] : j \in 1..8}
               /\ input.file.size <= 500 * 1024 * 1024
        /\ ( /\ Includes(allowedTypes, input.file.type)
             /\ input.file.size = 500 * 1024 * 1024 + 1 ) =>
               ~ret.val.valid /\ ret.val.message = SizeMessage

C2_Witness ==
    /\ Validated
    /\ Includes(allowedTypes, input.file.type)
    /\ input.file.size = 500 * 1024 * 1024
    /\ ret.val.valid

\* C4: for 0 <= b < 1024 the result is the decimal rendering of b followed
\* by " Bytes", and "0 Bytes" for b = 0.
C4_BelowOneKilobyte ==
    (Formatted /\ Below(input.bytes, 1)) =>
        /\ ret.val = IntToString(input.bytes[1]) \o " Bytes"
        /\ input.bytes[1] = 0 => ret.val = "0 Bytes"
        /\ input.bytes[1] = 1023 => ret.val = "1023 Bytes"

C4_Witness ==
    /\ Formatted
    /\ Below(input.bytes, 1)
    /\ input.bytes[1] = 1023

\* C5: for 0 < bytes < 1024^4 the unit index is the largest i with
\* 1024^i <= bytes, the number shown is bytes / 1024^i rounded to the
\* nearest hundredth with a tie going up, and the unit is the i-th of the
\* table; 1024 gives "1 KB", 1536 gives "1.5 KB", 1048576 gives "1 MB".
C5_UnitAndRounding ==
    (Formatted /\ ~IsZero(input.bytes) /\ Below(input.bytes, 4)) =>
        \E i \in 0..3 :
            /\ LargestUnit(i, input.bytes)
            /\ MathLogFloor(input.bytes) = i
            /\ NearestHundredth(MathRoundScaled(input.bytes, i), input.bytes, i)
            /\ ret.val = NumberToString(MathRoundScaled(input.bytes, i))
                             \o " " \o sizes[i + 1]
            /\ input.bytes = <<0, 1, 0, 0, 0>> => ret.val = "1 KB"
            /\ input.bytes = <<512, 1, 0, 0, 0>> => ret.val = "1.5 KB"
            /\ input.bytes = <<0, 0, 1, 0, 0>> => ret.val = "1 MB"
            /\ input.bytes = <<128, 1, 0, 0, 0>> => ret.val = "1.13 KB"

C5_Witness ==
    /\ Formatted
    /\ input.bytes = <<128, 1, 0, 0, 0>>
    /\ ret.val = "1.13 KB"

\* C9: for bytes > 0 the unit index is inside the 4-entry table exactly
\* when bytes < 1024^4; from 1024^4 on the index is 4 or more and the result
\* ends in the rendering of undefined, not in a unit of the table.
C9_IndexPastTable ==
    (Formatted /\ ~IsZero(input.bytes)) =>
        LET i == MathLogFloor(input.bytes)
        IN  /\ i \in 0..3 <=> Below(input.bytes, 4)
            /\ ~Below(input.bytes, 4) =>
                   /\ i >= 4
                   /\ SizesAt(i) \notin {sizes[j] : j \in DOMAIN sizes}
                   /\ ret.val = NumberToString(MathRoundScaled(input.bytes, i))
                                    \o " undefined"

C9_Witness ==
    /\ Formatted
    /\ input.bytes = <<0, 0, 0, 0, 1>>
    /\ ret.val = "1 undefined"

\* C10: for 0 < bytes < 1024^4 the number shown is at least 1 and strictly
\* below 1024.
C10_NumberBelow1024 ==
    (Formatted /\ ~IsZero(input.bytes) /\ Below(input.bytes, 4)) =>
        LET h == MathRoundScaled(input.bytes, MathLogFloor(input.bytes))
        IN  /\ 100 <= h
            /\ h < 1024 * 100
            /\ ret.val # "1024 KB"

\* C3: on a page with one target container and no banners, one
\* showNotification call puts exactly one banner in the document, and once
\* the timer callback and the fade-out it started have run, no element
\* matching '.alert' is left in the document.
C3_BannerRemoved ==
    (containers = 1 /\ callCount = 1) =>
        /\ (\A t \in timers : t.elapsed = 0) /\ timers # {} /\ alerts # {} =>
               Cardinality(SelectAlert(alerts)) = 1
        /\ (firedCount = 1 /\ fades = {}) => SelectAlert(alerts) = {}

\* C6: a timer callback starts the fade-out on every banner in the document
\* at that instant, whichever call made it, so that a banner is hidden less
\* than 5000 ms after it was shown when an earlier call's callback fires.
C6_CallbackFadesAll ==
    [][firedCount' # firedCount =>
          /\ SelectAlert(alerts) # {} =>
                 \E f \in fades' \ fades :
                     f.targets = {Key(a) : a \in SelectAlert(alerts)}
          /\ SelectAlert(alerts) = {} => fades' = fades]_vars

C6_Witness ==
    \E a \in alerts, t \in timers :
        /\ t.id = a.id
        /\ t.elapsed < Delay
        /\ a.display = "none"
        /\ firedCount = 1

\* C7: every call schedules one callback, which nothing cancels or
\* reschedules: a callback leaves the pending set only by running, it runs
\* 5000 ms after its call, and in the end as many callbacks have run as
\* calls were made.
C7_EveryCallbackFires ==
    /\ [](firedCount + Cardinality(timers) = callCount)
    /\ [][/\ callCount' # callCount =>
                 timers' = timers \cup {[id |-> callCount', elapsed |-> 0]}
          /\ firedCount' # firedCount =>
                 \E t \in timers : /\ t.elapsed = Delay
                                   /\ timers' = timers \ {t}
                                   /\ firedCount' = firedCount + 1
          /\ (callCount' = callCount /\ firedCount' = firedCount) =>
                 {t.id : t \in timers'} = {t.id : t \in timers}]_vars
    /\ <>[](firedCount = callCount)

C7_Witness ==
    /\ containers = 1
    /\ callCount >= 2
    /\ firedCount = callCount
    /\ alerts = {}

\* C8: a utility returns the same value for the same argument whatever
\* notifications were shown and callbacks run since the first call, and a
\* utility call leaves the banners, the timers and the argument as they were.
C8_UtilitiesPure ==
    /\ [](fnCalls > 0 => ret.val = first.val)
    /\ [][fnCalls' # fnCalls => UNCHANGED <<pageVars, input>>]_vars

C8_Witness ==
    /\ fnCalls >= 2
    /\ firedCount > first.fired
    /\ callCount > first.shown
    /\ ret.val = first.val

====
